---- MODULE Spec2Model ----
(***************************************************************************)
(* Nexus startup population (nexus/src/populate.rs): populate_start spawns *)
(* a task that walks ALL_POPULATORS in order, retrying each populator on   *)
(* ServiceUnavailable and giving up on any other error, and publishes the  *)
(* outcome once through a tokio watch channel.  The datastore is modelled  *)
(* as a table of row counts that can be unreachable or defective.  The     *)
(* module also models the unit test do_test_populator_idempotent, a second *)
(* Nexus replica, a database left by an older registry, and the start of   *)
(* the sled agent (sled-agent/src/bin/sled-agent.rs, main and do_run).     *)
(***************************************************************************)
EXTENDS Integers, Sequences, FiniteSets, TLC

VARIABLES
    args,       \* PopulateArgs.rack_id
    store,      \* datastore contents: row key -> number of copies
    reachable,  \* TRUE iff the database can be reached
    fault,      \* the defect of this deployment: a datastore call and the error it returns
    peer,       \* the run of another Nexus replica on the same database
    prior,      \* length of the registry whose run populated the database before (0: none)
    pc,         \* position of the spawned task
    step,       \* index into ALL_POPULATORS of the loop in populate()
    call,       \* index of the datastore call the populator is at (or returned from)
    nwarn,      \* number of warn! events of the task, counted up to MaxWarn
    lastRet,    \* what the most recent populator attempt of the task returned
    result,     \* value returned by populate()
    okSteps,    \* populators that returned Ok(()) in this run, in order
    inflight,   \* populators whose future has been invoked and has not returned
    errlog,     \* error! events of the task
    status,     \* value held by the watch channel
    version,    \* version counter of the watch channel
    rstate,     \* per receiver handle: "none", "held", "waiting", "dropped"
    seen,       \* per receiver handle: channel version it has marked seen
    obs,        \* per receiver handle: last value it read from the channel
    tpc,        \* position of do_test_populator_idempotent
    tp,         \* loop index of test_populators
    tcall,      \* 0: the populator under test is not running; else its next datastore call
    tret,       \* returns of the populator under test: try 1, try 2, offline
    tsnap,      \* store contents after try 1
    sled        \* the sled-agent process: position and locals of do_run, and its bootstrap server

envVars  == <<args, store, reachable, fault, peer, prior>>
taskVars == <<pc, step, call, nwarn, lastRet, result, okSteps, inflight, errlog>>
chanVars == <<status, version>>
rdrVars  == <<rstate, seen, obs>>
testVars == <<tpc, tp, tcall, tret, tsnap>>
sledVars == <<sled>>
vars == <<envVars, taskVars, chanVars, rdrVars, testVars, sledVars>>

----------------------------------------------------------------------------
(* Bounds *)

MaxWarn == 2

RackIds == {"rack-a", "rack-b"}
Readers == {1, 2}

----------------------------------------------------------------------------
(* PopulateStatus *)

NoChannel == [tag |-> "NoChannel", reason |-> <<>>]
NotDone == [tag |-> "NotDone", reason |-> <<>>]
Done == [tag |-> "Done", reason |-> <<>>]
Failed(message) == [tag |-> "Failed", reason |-> message]

----------------------------------------------------------------------------
(* omicron_common::api::external::Error and Result<(), Error> *)

NoError == [kind |-> "none", msg |-> ""]
ServiceUnavailable == [kind |-> "ServiceUnavailable", msg |-> "database unavailable"]
ObjectAlreadyExists(name) == [kind |-> "ObjectAlreadyExists", msg |-> name]
InternalError(m) == [kind |-> "InternalError", msg |-> m]

Ok == [ok |-> TRUE, err |-> NoError]
Err(e) == [ok |-> FALSE, err |-> e]

\* Error's Display: a prefix that depends on the variant, then its message.
to_string(e) ==
    CASE e.kind = "ServiceUnavailable" -> <<"Service Unavailable: ", e.msg>>
      [] e.kind = "ObjectAlreadyExists" -> <<"already exists: ", e.msg>>
      [] e.kind = "InternalError" -> <<"Internal Error: ", e.msg>>
      [] OTHER -> <<>>

----------------------------------------------------------------------------
(* The registry *)

ALL_POPULATORS_SilosLate ==
    << "PopulateBuiltinUsers",
       "PopulateBuiltinRoles",
       "PopulateBuiltinRoleAssignments",
       "PopulateSiloUsers",
       "PopulateSiloUserRoleAssignments",
       "PopulateBuiltinSilos",
       "PopulateFleet",
       "PopulateRack" >>

ALL_POPULATORS ==
    << "PopulateBuiltinUsers",
       "PopulateBuiltinRoles",
       "PopulateBuiltinRoleAssignments",
       "PopulateBuiltinSilos",
       "PopulateSiloUsers",
       "PopulateSiloUserRoleAssignments",
       "PopulateFleet",
       "PopulateRack" >>

NumPopulators == Len(ALL_POPULATORS)
Steps == 1..NumPopulators

\* The datastore calls each populator makes, in order.
StoreCalls(p) ==
    CASE p = "PopulateBuiltinUsers" -> <<"load_builtin_users">>
      [] p = "PopulateBuiltinRoles" -> <<"load_builtin_roles">>
      [] p = "PopulateBuiltinRoleAssignments" -> <<"load_builtin_role_asgns">>
      [] p = "PopulateBuiltinSilos" -> <<"load_builtin_silos">>
      [] p = "PopulateSiloUsers" -> <<"load_silo_users">>
      [] p = "PopulateSiloUserRoleAssignments" -> <<"load_silo_user_role_assignments">>
      [] p = "PopulateFleet" -> <<"virtual_provisioning_collection_create">>
      [] p = "PopulateRack" -> <<"rack_insert", "ip_pool_create_service", "ip_pool_create_default">>

AllCalls == UNION { {StoreCalls(ALL_POPULATORS[i])[j] : j \in 1..Len(StoreCalls(ALL_POPULATORS[i]))} : i \in Steps }

----------------------------------------------------------------------------
(* The datastore, as the populators see it *)

Rows ==
    { "builtin_users", "builtin_roles", "builtin_role_asgns", "builtin_silos",
      "silo_users", "silo_user_role_asgns", "fleet_collection",
      "oxide-service-pool", "default" } \cup RackIds

EmptyStore == [r \in Rows |-> 0]

NoFault == [call |-> "none", err |-> NoError]
ConflictCalls ==
    { "virtual_provisioning_collection_create", "rack_insert",
      "ip_pool_create_service", "ip_pool_create_default" }
Faults ==
    {NoFault}
    \cup { [call |-> c, err |-> InternalError("unexpected database error")] : c \in AllCalls }
    \cup { [call |-> c, err |-> ObjectAlreadyExists("unexpected conflict")] : c \in ConflictCalls }

\* INSERT ... ON CONFLICT DO NOTHING of the fixed row `row`.
InsertIgnoreConflict(st, row) ==
    [res |-> Ok, store |-> [st EXCEPT ![row] = IF @ = 0 THEN 1 ELSE @]]

\* Plain INSERT of a uniquely named pool: a second pool of that name is refused.
ip_pool_create(st, name) ==
    IF st[name] > 0
    THEN [res |-> Err(ObjectAlreadyExists(name)), store |-> st]
    ELSE [res |-> Ok, store |-> [st EXCEPT ![name] = 1]]

\* The row a call inserts.
RowOf(c, a) ==
    CASE c = "load_builtin_users" -> "builtin_users"
      [] c = "load_builtin_roles" -> "builtin_roles"
      [] c = "load_builtin_role_asgns" -> "builtin_role_asgns"
      [] c = "load_builtin_silos" -> "builtin_silos"
      [] c = "load_silo_users" -> "silo_users"
      [] c = "load_silo_user_role_assignments" -> "silo_user_role_asgns"
      [] c = "virtual_provisioning_collection_create" -> "fleet_collection"
      [] c = "rack_insert" -> a
      [] c = "ip_pool_create_service" -> "oxide-service-pool"
      [] c = "ip_pool_create_default" -> "default"

\* One datastore call `c` against contents `st`: its result and the new contents.
DataStoreCall(c, st, up, flt, a) ==
    IF ~up THEN [res |-> Err(ServiceUnavailable), store |-> st]
    ELSE IF flt.call = c THEN [res |-> Err(flt.err), store |-> st]
    ELSE IF c \in {"ip_pool_create_service", "ip_pool_create_default"}
         THEN ip_pool_create(st, RowOf(c, a))
         ELSE InsertIgnoreConflict(st, RowOf(c, a))

----------------------------------------------------------------------------
(* The populators: what each does with the result of its call-th datastore *)
(* call.  returned = FALSE means the populator goes on to its next call.   *)

Return(res) == [returned |-> TRUE, value |-> res]
Continue == [returned |-> FALSE, value |-> Ok]

\* `.map(|_| ())` on the only call: the call's result is the populator's.
PopulateBuiltin(res) == Return(IF res.ok THEN Ok ELSE res)

PopulateFleet_Tolerant(res) ==
    IF res.ok \/ res.err.kind = "ObjectAlreadyExists" THEN Return(Ok) ELSE Return(res)

\* `.await?; Ok(())`
PopulateFleet(res) == IF res.ok THEN Return(Ok) ELSE Return(res)

OrElse_Strict(res) == res

OrElse_TolerateAll(res) == Ok

\* `.or_else(|e| match e { Error::ObjectAlreadyExists { .. } => Ok(()), _ => Err(e) })`
OrElseAlreadyExists(res) ==
    IF res.ok THEN Ok
    ELSE IF res.err.kind = "ObjectAlreadyExists" THEN Ok ELSE res

PopulateRack_TolerantInsert(c, res) ==
    IF ~OrElseAlreadyExists(res).ok THEN Return(res)
    ELSE IF c < 3 THEN Continue ELSE Return(Ok)

PopulateRack_Unfiltered(c, res) ==
    IF ~res.ok THEN Return(res)
    ELSE IF c < 3 THEN Continue ELSE Return(Ok)

PopulateRack(c, res) ==
    CASE c = 1 -> IF res.ok THEN Continue ELSE Return(res)
      [] c = 2 -> IF OrElseAlreadyExists(res).ok THEN Continue ELSE Return(OrElseAlreadyExists(res))
      [] c = 3 -> IF OrElseAlreadyExists(res).ok THEN Return(Ok) ELSE Return(OrElseAlreadyExists(res))

Populate(p, c, res) ==
    CASE p = "PopulateFleet" -> PopulateFleet(res)
      [] p = "PopulateRack" -> PopulateRack(c, res)
      [] OTHER -> PopulateBuiltin(res)

----------------------------------------------------------------------------
(* populate(): classification of a populator's error, and the backoff *)

Classify_AllTransient(e) == "transient"

Classify_AllPermanent(e) == "permanent"

Classify(e) == IF e.kind = "ServiceUnavailable" THEN "transient" ELSE "permanent"

Warn_Silent(n) == n

\* The notify closure of retry_notify: one warn! event.
Warn(n) == IF n < MaxWarn THEN n + 1 ELSE n

NoReturn == [ok |-> FALSE, err |-> NoError]

NoResult == [ok |-> FALSE, message |-> <<"pending">>]
RunOk == [ok |-> TRUE, message |-> <<>>]
RunErr_Generic(e) == [ok |-> FALSE, message |-> <<"populate failed">>]

RunErr(e) == [ok |-> FALSE, message |-> to_string(e)]

GaveUp(p, e) == [event |-> "gave up trying to populate built-in", p |-> p, error |-> e]
NobodyWaiting == [event |-> "nobody waiting for populate", p |-> "", error |-> NoError]

Unread == [tag |-> "Unread", reason |-> <<>>]
NoReturns == <<>>

IdleTask ==
    /\ pc = "idle" /\ step = 1 /\ call = 1 /\ nwarn = 0 /\ lastRet = NoReturn
    /\ result = NoResult /\ okSteps = <<>> /\ inflight = {}
    /\ errlog = <<>>
    /\ status = NoChannel /\ version = 0
    /\ rstate = [r \in Readers |-> "none"]
    /\ seen = [r \in Readers |-> 0]
    /\ obs = [r \in Readers |-> Unread]

NoTest == tpc = "off" /\ tp = 1 /\ tcall = 0 /\ tret = NoReturns /\ tsnap = EmptyStore

\* The task of a replica whose populate_start has not been called.
PeerOff ==
    [pc |-> "idle", step |-> 1, call |-> 1, result |-> NoResult, status |-> NoChannel]

\* Result<(), CmdError> of do_run.
NoCmdResult == [ok |-> FALSE, message |-> "pending"]
CmdOk == [ok |-> TRUE, message |-> ""]
CmdFailure(m) == [ok |-> FALSE, message |-> m]

\* No sled-agent process.
SledOff ==
    [pc |-> "off", cmd |-> "none", rss_file |-> FALSE, rss_config |-> "None",
     server |-> "none", rack |-> "uninitialized", requests |-> 0, rss_result |-> "none",
     ret |-> NoCmdResult, exit |-> "none"]

NoSled == sled = SledOff

\* This Nexus is the only one on the database, and the first to populate it.
Alone == peer = PeerOff /\ prior = 0

\* A Nexus process about to call populate_start, on a database that rack
\* setup has created and nothing has populated.
Init ==
    /\ args \in RackIds
    /\ store = EmptyStore
    /\ reachable \in BOOLEAN
    /\ fault \in Faults
    /\ Alone
    /\ IdleTask
    /\ NoTest
    /\ NoSled

----------------------------------------------------------------------------
(* populate_start *)

PopulateStart_Blocking ==
    /\ pc = "idle" /\ tpc = "off"
    /\ reachable
    /\ status' = NotDone
    /\ version' = 0
    /\ rstate' = [r \in Readers |-> IF r = 1 THEN "held" ELSE "none"]
    /\ seen' = [r \in Readers |-> 0]
    /\ obs' = [r \in Readers |-> Unread]
    /\ pc' = "loop"
    /\ step' = 1
    /\ UNCHANGED <<call, nwarn, lastRet, result, okSteps, inflight, errlog>>
    /\ UNCHANGED <<envVars, testVars>>
    /\ UNCHANGED sledVars

\* watch::channel(NotDone), tokio::spawn of the task, rx returned to the caller.
PopulateStart ==
    /\ pc = "idle" /\ tpc = "off"
    /\ status' = NotDone
    /\ version' = 0
    /\ rstate' = [r \in Readers |-> IF r = 1 THEN "held" ELSE "none"]
    /\ seen' = [r \in Readers |-> 0]
    /\ obs' = [r \in Readers |-> Unread]
    /\ pc' = "loop"
    /\ step' = 1
    /\ UNCHANGED <<call, nwarn, lastRet, result, okSteps, inflight, errlog>>
    /\ UNCHANGED <<envVars, testVars>>
    /\ UNCHANGED sledVars

WatchSend_NoNotify(v) == [sent |-> TRUE, status |-> v, version |-> version]

WatchSend_Unchecked(v) == [sent |-> TRUE, status |-> v, version |-> version + 1]

\* tx.send(v): refused, and v discarded, when every receiver has been dropped.
WatchSend(v) ==
    IF \E r \in Readers : rstate[r] \in {"held", "waiting"}
    THEN [sent |-> TRUE, status |-> v, version |-> version + 1]
    ELSE [sent |-> FALSE, status |-> status, version |-> version]

\* The value the task sends for populate()'s result.
StatusOf(res) == IF res.ok THEN Done ELSE Failed(res.message)

TaskSend_ThenDone ==
    /\ pc = "send"
    /\ IF ~result.ok /\ status = NotDone
       THEN status' = Failed(result.message) /\ pc' = "send"
       ELSE status' = Done /\ pc' = "exited"
    /\ version' = version + 1
    /\ UNCHANGED <<step, call, nwarn, lastRet, result, okSteps, inflight, errlog>>
    /\ UNCHANGED <<envVars, rdrVars, testVars>>
    /\ UNCHANGED sledVars

\* The tail of the spawned task: send the outcome, log if nobody listens.
TaskSend ==
    /\ pc = "send"
    /\ status' = WatchSend(StatusOf(result)).status
    /\ version' = WatchSend(StatusOf(result)).version
    /\ errlog' = IF WatchSend(StatusOf(result)).sent THEN errlog ELSE Append(errlog, NobodyWaiting)
    /\ pc' = "exited"
    /\ UNCHANGED <<step, call, nwarn, lastRet, result, okSteps, inflight>>
    /\ UNCHANGED <<envVars, rdrVars, testVars>>
    /\ UNCHANGED sledVars

----------------------------------------------------------------------------
(* populate() *)

TaskInvoke_FromFirst ==
    /\ pc = "loop"
    /\ pc' = "call"
    /\ call' = 1
    /\ step' = IF ~lastRet.ok /\ lastRet.err.kind = "ServiceUnavailable" THEN 1 ELSE step
    /\ inflight' = inflight \cup {step'}
    /\ UNCHANGED <<nwarn, lastRet, result, okSteps, errlog>>
    /\ UNCHANGED <<envVars, chanVars, rdrVars, testVars>>
    /\ UNCHANGED sledVars

TaskInvoke_Resumes ==
    /\ pc = "loop"
    /\ pc' = "call"
    /\ call' = IF ~lastRet.ok /\ lastRet.err.kind = "ServiceUnavailable" THEN call ELSE 1
    /\ inflight' = inflight \cup {step}
    /\ UNCHANGED <<step, nwarn, lastRet, result, okSteps, errlog>>
    /\ UNCHANGED <<envVars, chanVars, rdrVars, testVars>>
    /\ UNCHANGED sledVars

TaskInvoke_OncePerDatabase ==
    /\ pc = "loop"
    /\ IF step = 1 /\ store["builtin_users"] > 0
       THEN pc' = "send" /\ result' = RunOk /\ UNCHANGED <<call, inflight>>
       ELSE pc' = "call" /\ call' = 1 /\ inflight' = inflight \cup {step} /\ UNCHANGED result
    /\ UNCHANGED <<step, nwarn, lastRet, okSteps, errlog>>
    /\ UNCHANGED <<envVars, chanVars, rdrVars, testVars>>
    /\ UNCHANGED sledVars

TaskInvoke_IfWatched ==
    /\ pc = "loop"
    /\ \E r \in Readers : rstate[r] \in {"held", "waiting"}
    /\ pc' = "call"
    /\ call' = 1
    /\ inflight' = inflight \cup {step}
    /\ UNCHANGED <<step, nwarn, lastRet, result, okSteps, errlog>>
    /\ UNCHANGED <<envVars, chanVars, rdrVars, testVars>>
    /\ UNCHANGED sledVars

\* retry_notify calls the operation: the populator's future starts and waits
\* for its first datastore call.
TaskInvoke ==
    /\ pc = "loop"
    /\ pc' = "call"
    /\ call' = 1
    /\ inflight' = inflight \cup {step}
    /\ UNCHANGED <<step, nwarn, lastRet, result, okSteps, errlog>>
    /\ UNCHANGED <<envVars, chanVars, rdrVars, testVars>>
    /\ UNCHANGED sledVars

AfterOk_StopsEarly(k) ==
    IF k < NumPopulators - 1
    THEN [pc |-> "loop", step |-> k + 1, result |-> NoResult]
    ELSE [pc |-> "send", step |-> k, result |-> RunOk]

AfterOk_SkipsOne(k) ==
    IF k + 1 < NumPopulators
    THEN [pc |-> "loop", step |-> k + 2, result |-> NoResult]
    ELSE [pc |-> "send", step |-> k, result |-> RunOk]

\* The loop after populator `step` returned Ok(()): the next populator, or
\* Ok(()) after the last one.
AfterOk(k) ==
    IF k < NumPopulators
    THEN [pc |-> "loop", step |-> k + 1, result |-> NoResult]
    ELSE [pc |-> "send", step |-> k, result |-> RunOk]

\* One datastore call of the populator in flight returns, and whatever the
\* populator and retry_notify do with it up to the next await.
TaskCall ==
    /\ pc = "call"
    /\ LET p == ALL_POPULATORS[step]
           d == DataStoreCall(StoreCalls(p)[call], store, reachable, fault, args)
           r == Populate(p, call, d.res)
       IN /\ store' = d.store
          /\ IF ~r.returned
             THEN /\ call' = call + 1
                  /\ UNCHANGED <<pc, step, nwarn, lastRet, result, okSteps, inflight, errlog>>
             ELSE /\ UNCHANGED call
                  /\ inflight' = inflight \ {step}
                  /\ lastRet' = r.value
                  /\ IF r.value.ok
                     THEN /\ okSteps' = Append(okSteps, step)
                          /\ pc' = AfterOk(step).pc
                          /\ step' = AfterOk(step).step
                          /\ result' = AfterOk(step).result
                          /\ UNCHANGED <<nwarn, errlog>>
                     ELSE IF Classify(r.value.err) = "transient"
                     THEN /\ nwarn' = Warn(nwarn)
                          /\ pc' = "backoff"
                          /\ UNCHANGED <<step, result, okSteps, errlog>>
                     ELSE /\ errlog' = Append(errlog, GaveUp(p, r.value.err))
                          /\ result' = RunErr(r.value.err)
                          /\ pc' = "send"
                          /\ UNCHANGED <<step, nwarn, okSteps>>
    /\ UNCHANGED <<args, reachable, fault, peer, prior>>
    /\ UNCHANGED <<chanVars, rdrVars, testVars>>
    /\ UNCHANGED sledVars

\* The backoff sleep ends; retry_notify calls the same populator again.  The
\* policy is retry_policy_internal_service(): it sets no maximum elapsed
\* time, so the sleep is always followed by another call.
TaskWake ==
    /\ pc = "backoff"
    /\ pc' = "loop"
    /\ UNCHANGED <<step, call, nwarn, lastRet, result, okSteps, inflight, errlog>>
    /\ UNCHANGED <<envVars, chanVars, rdrVars, testVars>>
    /\ UNCHANGED sledVars

----------------------------------------------------------------------------
(* Holders of the watch::Receiver *)

Alive(r) == rstate[r] \in {"held", "waiting"}
TxDropped == pc = "exited"

\* rx.clone(): a new handle with the seen version of the one it is cloned from.
ReaderClone(r, from) ==
    /\ rstate[r] = "none" /\ rstate[from] = "held"
    /\ rstate' = [rstate EXCEPT ![r] = "held"]
    /\ seen' = [seen EXCEPT ![r] = seen[from]]
    /\ UNCHANGED <<obs, envVars, taskVars, chanVars, testVars>>
    /\ UNCHANGED sledVars

\* rx.borrow(): the current value.
ReaderBorrow(r) ==
    /\ rstate[r] = "held"
    /\ obs' = [obs EXCEPT ![r] = status]
    /\ UNCHANGED <<rstate, seen, envVars, taskVars, chanVars, testVars>>
    /\ UNCHANGED sledVars

\* rx.changed() is called with nothing new to see: the handle waits.  (With
\* the sender gone it returns Err at once and nothing changes.)
ReaderWait(r) ==
    /\ rstate[r] = "held" /\ version = seen[r] /\ ~TxDropped
    /\ rstate' = [rstate EXCEPT ![r] = "waiting"]
    /\ UNCHANGED <<seen, obs, envVars, taskVars, chanVars, testVars>>
    /\ UNCHANGED sledVars

\* rx.changed() returns Ok(()) for an unseen version, and the holder reads it.
ReaderChanged(r) ==
    /\ Alive(r) /\ version # seen[r]
    /\ rstate' = [rstate EXCEPT ![r] = "held"]
    /\ seen' = [seen EXCEPT ![r] = version]
    /\ obs' = [obs EXCEPT ![r] = status]
    /\ UNCHANGED <<envVars, taskVars, chanVars, testVars>>
    /\ UNCHANGED sledVars

ReaderDrop(r) ==
    /\ Alive(r)
    /\ rstate' = [rstate EXCEPT ![r] = "dropped"]
    /\ seen' = [seen EXCEPT ![r] = 0]
    /\ obs' = [obs EXCEPT ![r] = Unread]
    /\ UNCHANGED <<envVars, taskVars, chanVars, testVars>>
    /\ UNCHANGED sledVars

----------------------------------------------------------------------------
(* The environment *)

StoreDown ==
    /\ tpc = "off" /\ reachable
    /\ reachable' = FALSE
    /\ UNCHANGED <<args, store, fault, peer, prior, taskVars, chanVars, rdrVars, testVars>>
    /\ UNCHANGED sledVars

StoreUp ==
    /\ tpc = "off" /\ ~reachable
    /\ reachable' = TRUE
    /\ UNCHANGED <<args, store, fault, peer, prior, taskVars, chanVars, rdrVars, testVars>>
    /\ UNCHANGED sledVars

\* The Nexus process exits at any point and is started again with the same
\* arguments: its memory is gone, the database is not.
ProcessRestart ==
    /\ tpc = "off" /\ pc # "idle"
    /\ pc' = "idle" /\ step' = 1 /\ call' = 1 /\ nwarn' = 0 /\ lastRet' = NoReturn
    /\ result' = NoResult /\ okSteps' = <<>> /\ inflight' = {}
    /\ errlog' = <<>>
    /\ status' = NoChannel /\ version' = 0
    /\ rstate' = [r \in Readers |-> "none"]
    /\ seen' = [r \in Readers |-> 0]
    /\ obs' = [r \in Readers |-> Unread]
    /\ UNCHANGED <<args, store, reachable, fault, peer, prior, testVars>>
    /\ UNCHANGED sledVars

Next ==
    \/ PopulateStart
    \/ TaskInvoke
    \/ TaskCall
    \/ TaskWake
    \/ TaskSend
    \/ \E r \in Readers : \E from \in Readers : ReaderClone(r, from)
    \/ \E r \in Readers : ReaderBorrow(r)
    \/ \E r \in Readers : ReaderWait(r)
    \/ \E r \in Readers : ReaderChanged(r)
    \/ \E r \in Readers : ReaderDrop(r)
    \/ StoreDown
    \/ StoreUp
    \/ ProcessRestart

Spec == Init /\ [][Next]_vars

----------------------------------------------------------------------------
(* One run of a process that stays up, on a deployment without a defect,   *)
(* with the tokio runtime polling the spawned task and firing its timer.   *)

InitLive == Init /\ fault = NoFault

TaskStep == TaskInvoke \/ TaskCall \/ TaskWake \/ TaskSend

NextLive ==
    \/ PopulateStart
    \/ TaskStep
    \/ \E r \in Readers : \E from \in Readers : ReaderClone(r, from)
    \/ \E r \in Readers : ReaderBorrow(r)
    \/ \E r \in Readers : ReaderWait(r)
    \/ \E r \in Readers : ReaderChanged(r)
    \/ \E r \in Readers : ReaderDrop(r)
    \/ StoreDown
    \/ StoreUp

LiveSpec == InitLive /\ [][NextLive]_vars /\ WF_vars(TaskStep)

----------------------------------------------------------------------------
(* Two Nexus replicas populating the same database: the second replica runs *)
(* the same populate_start and populate(), its state kept in `peer`; its    *)
(* process holds the receiver of its own channel.                           *)

PeerStart ==
    /\ peer.pc = "idle" /\ tpc = "off"
    /\ peer' = [peer EXCEPT !.pc = "loop", !.step = 1, !.status = NotDone]
    /\ UNCHANGED <<args, store, reachable, fault, prior>>
    /\ UNCHANGED <<taskVars, chanVars, rdrVars, testVars>>
    /\ UNCHANGED sledVars

PeerInvoke ==
    /\ peer.pc = "loop"
    /\ peer' = [peer EXCEPT !.pc = "call", !.call = 1]
    /\ UNCHANGED <<args, store, reachable, fault, prior>>
    /\ UNCHANGED <<taskVars, chanVars, rdrVars, testVars>>
    /\ UNCHANGED sledVars

PeerCall ==
    /\ peer.pc = "call"
    /\ LET p == ALL_POPULATORS[peer.step]
           d == DataStoreCall(StoreCalls(p)[peer.call], store, reachable, fault, args)
           r == Populate(p, peer.call, d.res)
       IN /\ store' = d.store
          /\ peer' =
                IF ~r.returned THEN [peer EXCEPT !.call = peer.call + 1]
                ELSE IF r.value.ok
                THEN [peer EXCEPT !.pc = AfterOk(peer.step).pc,
                                  !.step = AfterOk(peer.step).step,
                                  !.result = AfterOk(peer.step).result]
                ELSE IF Classify(r.value.err) = "transient"
                THEN [peer EXCEPT !.pc = "backoff"]
                ELSE [peer EXCEPT !.pc = "send", !.result = RunErr(r.value.err)]
    /\ UNCHANGED <<args, reachable, fault, prior>>
    /\ UNCHANGED <<taskVars, chanVars, rdrVars, testVars>>
    /\ UNCHANGED sledVars

PeerWake ==
    /\ peer.pc = "backoff"
    /\ peer' = [peer EXCEPT !.pc = "loop"]
    /\ UNCHANGED <<args, store, reachable, fault, prior>>
    /\ UNCHANGED <<taskVars, chanVars, rdrVars, testVars>>
    /\ UNCHANGED sledVars

PeerSend ==
    /\ peer.pc = "send"
    /\ peer' = [peer EXCEPT !.pc = "exited", !.status = StatusOf(peer.result)]
    /\ UNCHANGED <<args, store, reachable, fault, prior>>
    /\ UNCHANGED <<taskVars, chanVars, rdrVars, testVars>>
    /\ UNCHANGED sledVars

PeerStep == PeerInvoke \/ PeerCall \/ PeerWake \/ PeerSend

NextReplicas ==
    \/ PopulateStart
    \/ TaskStep
    \/ PeerStart
    \/ PeerStep
    \/ StoreDown
    \/ StoreUp

ReplicaSpec ==
    InitLive /\ [][NextReplicas]_vars /\ WF_vars(TaskStep) /\ WF_vars(PeerStep)

----------------------------------------------------------------------------
(* A Nexus process that can crash at any point and is started again, on a   *)
(* deployment without a defect; whenever it is up its runtime polls the     *)
(* task, and a process that is down is started.                             *)

NextCrash ==
    \/ PopulateStart
    \/ TaskStep
    \/ StoreDown
    \/ StoreUp
    \/ ProcessRestart

CrashSpec ==
    InitLive /\ [][NextCrash]_vars /\ WF_vars(TaskStep) /\ WF_vars(PopulateStart)

----------------------------------------------------------------------------
(* Upgrade: the database was populated by a complete run of an older Nexus, *)
(* whose registry was the first `prior` populators of ALL_POPULATORS; this  *)
(* Nexus then starts on it.                                                 *)

RECURSIVE AfterCalls(_, _, _, _)
\* The database after populator p made its calls c, c+1, .. on st.
AfterCalls(p, c, st, a) ==
    IF c > Len(StoreCalls(p)) THEN st
    ELSE AfterCalls(p, c + 1, DataStoreCall(StoreCalls(p)[c], st, TRUE, NoFault, a).store, a)

RECURSIVE AfterRun(_, _)
\* The database after a complete run over the first n populators.
AfterRun(n, a) ==
    IF n = 0 THEN EmptyStore
    ELSE AfterCalls(ALL_POPULATORS[n], 1, AfterRun(n - 1, a), a)

InitUpgrade ==
    /\ args \in RackIds
    /\ prior \in 0..NumPopulators
    /\ store = AfterRun(prior, args)
    /\ reachable \in BOOLEAN
    /\ fault = NoFault
    /\ peer = PeerOff
    /\ IdleTask
    /\ NoTest
    /\ NoSled

NextUpgrade ==
    \/ PopulateStart
    \/ TaskStep
    \/ StoreDown
    \/ StoreUp

UpgradeSpec == InitUpgrade /\ [][NextUpgrade]_vars /\ WF_vars(TaskStep)

----------------------------------------------------------------------------
(* test_populators / do_test_populator_idempotent *)

InitTest ==
    /\ args \in RackIds
    /\ store = EmptyStore
    /\ reachable = FALSE
    /\ fault = NoFault
    /\ Alone
    /\ IdleTask
    /\ tpc = "setup" /\ tp = 1 /\ tcall = 0 /\ tret = NoReturns /\ tsnap = EmptyStore
    /\ NoSled

\* test_setup_database, a datastore on it, and PopulateArgs::new(Uuid::new_v4()).
TestSetup ==
    /\ tpc = "setup"
    /\ store' = EmptyStore
    /\ reachable' = TRUE
    /\ args' \in RackIds
    /\ tpc' = "try1"
    /\ tret' = NoReturns
    /\ tsnap' = EmptyStore
    /\ UNCHANGED <<tp, tcall, fault, peer, prior, taskVars, chanVars, rdrVars>>
    /\ UNCHANGED sledVars

\* p.populate(&opctx, &datastore, &args) is called.
TestInvoke ==
    /\ tpc \in {"try1", "try2", "offline"} /\ tcall = 0
    /\ tcall' = 1
    /\ UNCHANGED <<tpc, tp, tret, tsnap, envVars, taskVars, chanVars, rdrVars>>
    /\ UNCHANGED sledVars

\* What the test does with the populator's return in each of its phases.
TestAfter(phase, k, ret) ==
    CASE phase = "try1" -> IF ret.ok THEN [tpc |-> "try2", tp |-> k] ELSE [tpc |-> "panicked", tp |-> k]
      [] phase = "try2" -> IF ret.ok THEN [tpc |-> "cleanup", tp |-> k] ELSE [tpc |-> "panicked", tp |-> k]
      [] phase = "offline" ->
            IF ~ret.ok /\ ret.err.kind = "ServiceUnavailable"
            THEN (IF k < NumPopulators THEN [tpc |-> "setup", tp |-> k + 1] ELSE [tpc |-> "finished", tp |-> k])
            ELSE [tpc |-> "panicked", tp |-> k]

\* One datastore call of the populator under test returns.
TestCall ==
    /\ tpc \in {"try1", "try2", "offline"} /\ tcall > 0
    /\ LET p == ALL_POPULATORS[tp]
           d == DataStoreCall(StoreCalls(p)[tcall], store, reachable, fault, args)
           r == Populate(p, tcall, d.res)
       IN /\ store' = d.store
          /\ IF ~r.returned
             THEN /\ tcall' = tcall + 1
                  /\ UNCHANGED <<tpc, tp, tret, tsnap>>
             ELSE /\ tcall' = 0
                  /\ tret' = Append(tret, r.value)
                  /\ tpc' = TestAfter(tpc, tp, r.value).tpc
                  /\ tp' = TestAfter(tpc, tp, r.value).tp
                  /\ tsnap' = IF tpc = "try1" THEN d.store ELSE tsnap
    /\ UNCHANGED <<args, reachable, fault, peer, prior, taskVars, chanVars, rdrVars>>
    /\ UNCHANGED sledVars

\* db.cleanup(), then a fail-fast pool on the database that is gone.
TestCleanup ==
    /\ tpc = "cleanup"
    /\ store' = EmptyStore
    /\ reachable' = FALSE
    /\ tpc' = "offline"
    /\ UNCHANGED <<tp, tcall, tret, tsnap, args, fault, peer, prior, taskVars, chanVars, rdrVars>>
    /\ UNCHANGED sledVars

NextTest ==
    \/ TestSetup
    \/ TestInvoke
    \/ TestCall
    \/ TestCleanup

TestSpec == InitTest /\ [][NextTest]_vars

----------------------------------------------------------------------------
(* The sled agent executable (sled-agent/src/bin/sled-agent.rs): main and   *)
(* do_run.  Every fallible call of do_run either succeeds or fails; the     *)
(* bootstrap server, once started, runs until it finishes or is dropped.    *)

Cmds == {"Openapi(Sled)", "Openapi(Bootstrap)", "Run"}

\* Result<_, RssAccessError> of start_rack_initialize: a rack that has been
\* initialized answers AlreadyInitialized; one that has not accepts the
\* request or refuses it with another error.
RssResults(rack) ==
    IF rack = "initialized" THEN {"AlreadyInitialized"}
    ELSE {"Ok", "AlreadyInitializing", "InitializationFailed"}

\* A sled-agent process about to run main; no Nexus is involved.
InitSled ==
    /\ args = CHOOSE a \in RackIds : TRUE
    /\ store = EmptyStore
    /\ reachable = TRUE
    /\ fault = NoFault
    /\ Alone
    /\ IdleTask
    /\ NoTest
    /\ \E c \in Cmds : \E f \in BOOLEAN : \E r \in {"uninitialized", "initialized"} :
          sled = [SledOff EXCEPT !.pc = "main", !.cmd = c, !.rss_file = f, !.rack = r]

\* `return Err(CmdError::Failure(m))` or a `?` on an error: do_run returns,
\* and the server it owns, if any, is dropped.
SledReturn(r) ==
    [sled EXCEPT !.pc = "returned", !.ret = r,
                 !.server = IF sled.server = "running" THEN "dropped" ELSE sled.server]

\* Args::parse and the match on it: run_openapi for the Openapi commands,
\* SledConfig::from_file for Run.
SledMatchArgs ==
    /\ sled.pc = "main"
    /\ \E ok \in BOOLEAN :
          sled' = IF sled.cmd # "Run"
                  THEN SledReturn(IF ok THEN CmdOk ELSE CmdFailure("run_openapi"))
                  ELSE IF ok THEN [sled EXCEPT !.pc = "rss_path"]
                  ELSE SledReturn(CmdFailure("SledConfig::from_file"))
    /\ UNCHANGED <<envVars, taskVars, chanVars, rdrVars, testVars>>

\* rss_config_path.exists(), and RssConfig::from_file if it does.
SledRssConfig ==
    /\ sled.pc = "rss_path"
    /\ \E ok \in BOOLEAN :
          sled' = IF ~sled.rss_file THEN [sled EXCEPT !.pc = "get_link", !.rss_config = "None"]
                  ELSE IF ok THEN [sled EXCEPT !.pc = "get_link", !.rss_config = "Some"]
                  ELSE SledReturn(CmdFailure("RssConfig::from_file"))
    /\ UNCHANGED <<envVars, taskVars, chanVars, rdrVars, testVars>>

\* config.get_link()
SledGetLink ==
    /\ sled.pc = "get_link"
    /\ \E ok \in BOOLEAN :
          sled' = IF ok THEN [sled EXCEPT !.pc = "server_start"]
                  ELSE SledReturn(CmdFailure("get_link"))
    /\ UNCHANGED <<envVars, taskVars, chanVars, rdrVars, testVars>>

\* bootstrap_server::Server::start(bootstrap_config, config).await
SledServerStart ==
    /\ sled.pc = "server_start"
    /\ \E ok \in BOOLEAN :
          sled' = IF ok THEN [sled EXCEPT !.pc = "rack_init", !.server = "running"]
                  ELSE SledReturn(CmdFailure("Server::start"))
    /\ UNCHANGED <<envVars, taskVars, chanVars, rdrVars, testVars>>

RssOutcome_OnlyOk(res) == IF res = "Ok" THEN "continue" ELSE "fail"

\* The match on start_rack_initialize's result.
RssOutcome(res) == IF res \in {"Ok", "AlreadyInitialized"} THEN "continue" ELSE "fail"

\* `if let Some(rss_config) = rss_config { match server.agent().start_rack_initialize(..) }`
SledRackInitialize ==
    /\ sled.pc = "rack_init"
    /\ \E res \in RssResults(sled.rack) :
          sled' = IF sled.rss_config = "None" THEN [sled EXCEPT !.pc = "wait"]
                  ELSE IF RssOutcome(res) = "continue"
                  THEN [sled EXCEPT !.pc = "wait", !.requests = sled.requests + 1,
                                    !.rss_result = res]
                  ELSE [SledReturn(CmdFailure(res)) EXCEPT !.requests = sled.requests + 1,
                                                           !.rss_result = res]
    /\ UNCHANGED <<envVars, taskVars, chanVars, rdrVars, testVars>>

\* Rack initialization completes, whoever requested it (this process, or
\* the HTTP request of Wicket).
SledRackInitialized ==
    /\ sled.pc \notin {"off", "exited"} /\ sled.rack = "uninitialized"
    /\ sled' = [sled EXCEPT !.rack = "initialized"]
    /\ UNCHANGED <<envVars, taskVars, chanVars, rdrVars, testVars>>

\* The bootstrap server ends by itself, cleanly or with an error.
SledServerFinishes ==
    /\ sled.server = "running"
    /\ \E ok \in BOOLEAN :
          sled' = [sled EXCEPT !.server = IF ok THEN "finished_ok" ELSE "finished_err"]
    /\ UNCHANGED <<envVars, taskVars, chanVars, rdrVars, testVars>>

\* server.wait_for_finish().await returns once the server has finished.
SledWaitForFinish ==
    /\ sled.pc = "wait" /\ sled.server \in {"finished_ok", "finished_err"}
    /\ sled' = SledReturn(IF sled.server = "finished_ok" THEN CmdOk
                          ELSE CmdFailure("wait_for_finish"))
    /\ UNCHANGED <<envVars, taskVars, chanVars, rdrVars, testVars>>

\* main: fatal(message) if do_run returned Err, else a normal exit.
SledMain ==
    /\ sled.pc = "returned"
    /\ sled' = [sled EXCEPT !.pc = "exited",
                             !.exit = IF sled.ret.ok THEN "success" ELSE "failure"]
    /\ UNCHANGED <<envVars, taskVars, chanVars, rdrVars, testVars>>

NextSled ==
    \/ SledMatchArgs
    \/ SledRssConfig
    \/ SledGetLink
    \/ SledServerStart
    \/ SledRackInitialize
    \/ SledRackInitialized
    \/ SledServerFinishes
    \/ SledWaitForFinish
    \/ SledMain

SledSpec == InitSled /\ [][NextSled]_vars

----------------------------------------------------------------------------
(* Properties of a run *)

Terminal(st) == st.tag \in {"Done", "Failed"}
Permanent(ret) == ~ret.ok /\ ret.err.kind \notin {"none", "ServiceUnavailable"}
Transient(ret) == ~ret.ok /\ ret.err.kind = "ServiceUnavailable"
Prefix(n) == [i \in 1..n |-> i]
Started == pc # "idle"
SameRun == pc # "idle" /\ pc' # "idle"

\* C1: the cell of a run starts at NotDone, is written at most once, and
\* every write takes it from NotDone to Done or Failed; a terminal value
\* never changes for the rest of the run.
C1_StatusWrittenOnce ==
    [][ /\ (pc = "idle" /\ pc' # "idle") => (status' = NotDone /\ version' = 0)
        /\ SameRun =>
              /\ (status' # status => status = NotDone /\ Terminal(status'))
              /\ (Terminal(status) => status' = status)
              /\ (version' # version <=> status' # status)
              /\ version' \in {version, version + 1}
              /\ version' <= 1 ]_vars

C1_Witness ==
    /\ pc = "exited" /\ status = Done /\ version = 1
    /\ rstate[2] = "held" /\ obs[2] = Done

\* C2: populators are invoked in registry order, one at a time: while
\* populator k is pending, in flight or backing off, exactly populators
\* 1..k-1 have returned Ok, in that order, and nothing but k is in flight.
C2_RegistryOrder ==
    /\ okSteps = Prefix(Len(okSteps))
    /\ Cardinality(inflight) <= 1
    /\ inflight \subseteq {step}
    /\ (pc = "call" <=> inflight = {step})
    /\ pc \in {"loop", "call", "backoff"} => okSteps = Prefix(step - 1)

C2_Witness ==
    /\ pc = "call" /\ step = 8 /\ call = 2 /\ inflight = {8}
    /\ okSteps = Prefix(7)

\* C3: once a populator has returned an error other than ServiceUnavailable,
\* the run invokes nothing more (no retry of that populator, no later
\* populator, no datastore call) and what it sends is Failed.
C3_PermanentFailureAborts ==
    [][ (Permanent(lastRet) /\ SameRun) =>
          /\ pc \in {"send", "exited"} /\ pc' \in {"send", "exited"}
          /\ inflight' = {} /\ okSteps' = okSteps /\ step' = step
          /\ lastRet' = lastRet /\ store' = store
          /\ StatusOf(result).tag = "Failed"
          /\ pc' = "exited" =>
                \/ status'.tag = "Failed"
                \/ status' = NotDone /\ errlog'[Len(errlog')] = NobodyWaiting ]_vars

C3_Witness ==
    /\ pc = "exited" /\ status.tag = "Failed" /\ step = 5
    /\ Permanent(lastRet) /\ okSteps = Prefix(4)
    /\ \A r \in Rows : store[r] > 0 <=> r \in {"builtin_users", "builtin_roles", "builtin_role_asgns", "builtin_silos"}

Logged(ev) == \E i \in 1..Len(errlog) : errlog[i] = ev

\* C4 as claimed: whenever the published status is Failed(reason), the reason
\* names the populator that failed.
C4_FailedNamesStep ==
    status.tag = "Failed" =>
        \E i \in 1..Len(status.reason) : status.reason[i] = ALL_POPULATORS[step]

\* C4 as amended: whenever the published status is Failed(reason), the reason
\* is the text of the permanent error the failing populator returned, and the
\* populator is named by the error! event logged before the status is sent.
C4_FailedCarriesError ==
    /\ status.tag = "Failed" =>
          /\ Permanent(lastRet)
          /\ status.reason = to_string(lastRet.err)
          /\ Logged(GaveUp(ALL_POPULATORS[step], lastRet.err))
    /\ (pc = "send" /\ Permanent(lastRet)) =>
          /\ status = NotDone
          /\ StatusOf(result) = Failed(to_string(lastRet.err))
          /\ Logged(GaveUp(ALL_POPULATORS[step], lastRet.err))

C4_Witness ==
    /\ status = Failed(<<"Internal Error: ", "unexpected database error">>)
    /\ step = 5
    /\ errlog = <<GaveUp("PopulateSiloUsers", InternalError("unexpected database error"))>>

\* C5: a populator that returns ServiceUnavailable is the next one invoked,
\* from its first call, however many times in a row that happens: the task
\* backs off, the wake-up and the re-invocation are always possible, and the
\* status stays NotDone meanwhile; only a permanent error makes it Failed.
C5_RetrySameStep ==
    /\ [](pc = "backoff" => Transient(lastRet) /\ status = NotDone /\ ENABLED TaskWake)
    /\ [](pc = "loop" => status = NotDone /\ ENABLED TaskInvoke)
    /\ [](status.tag = "Failed" => Permanent(lastRet))
    /\ [][ SameRun =>
            /\ (pc = "call" /\ inflight' = {} /\ Transient(lastRet')) =>
                  /\ pc' = "backoff" /\ step' = step /\ okSteps' = okSteps
                  /\ status' = status /\ result' = result
            /\ pc = "backoff" => pc' \in {"backoff", "loop"} /\ step' = step
            /\ (pc = "loop" /\ Transient(lastRet)) =>
                  /\ step' = step
                  /\ pc' = "loop" \/ (pc' = "call" /\ call' = 1 /\ inflight' = {step}) ]_vars

C5_Witness ==
    /\ pc = "call" /\ step = 1 /\ call = 1 /\ okSteps = <<>>
    /\ nwarn = MaxWarn /\ Transient(lastRet) /\ status = NotDone

\* C6: Done is published only after all 8 populators returned Ok in order;
\* Failed only after a populator returned a permanent error; and while a
\* populator is pending, in flight or backing off the status is NotDone.
C6_StatusMatchesRun ==
    /\ status = Done => okSteps = Prefix(NumPopulators) /\ result = RunOk /\ pc = "exited"
    /\ status.tag = "Failed" => Permanent(lastRet) /\ result = RunErr(lastRet.err) /\ pc = "exited"
    /\ pc \in {"loop", "call", "backoff", "send"} => status = NotDone
    /\ Started => status.tag \in {"NotDone", "Done", "Failed"}

C6_Witness ==
    /\ status = Done /\ okSteps = Prefix(8) /\ nwarn > 0
    /\ \A r \in Rows \ RackIds : store[r] = 1

\* C7: if the database is unreachable only for finitely long (from some point
\* on it stays reachable) and no call has a permanent defect, a started run
\* whose task keeps being scheduled eventually has every populator return Ok
\* and sends Done.
C7_EventuallyDone ==
    (<>[]reachable) =>
        [](Started => <>(/\ pc = "exited" /\ result = RunOk
                         /\ okSteps = Prefix(NumPopulators)
                         /\ status = Done \/ Logged(NobodyWaiting)))

C7_Witness ==
    /\ pc = "exited" /\ status = Done /\ okSteps = Prefix(NumPopulators)
    /\ nwarn = MaxWarn /\ fault = NoFault /\ reachable

NoDuplicates == \A r \in Rows : store[r] <= 1

\* C8: in the test of each of the 8 populators, the first and the second
\* invocation against the same database both return Ok, and the database
\* after the second is what it was after the first, with no row twice.
C8_Idempotent ==
    /\ tpc # "panicked"
    /\ NoDuplicates
    /\ Len(tret) >= 1 => tret[1] = Ok
    /\ Len(tret) >= 2 => tret[2] = Ok
    /\ tpc = "cleanup" => Len(tret) = 2 /\ store = tsnap

C8_Witness ==
    /\ tpc = "cleanup" /\ tp = 8 /\ tret = <<Ok, Ok>>
    /\ store = tsnap
    /\ store[args] = 1 /\ store["oxide-service-pool"] = 1 /\ store["default"] = 1

\* C9: whenever a datastore call of a populator is answered while the
\* database is unreachable, whichever populator and whichever of its calls,
\* the attempt returns ServiceUnavailable, is classified transient and
\* leaves the database as it was.
C9_UnreachableIsTransient ==
    [][ (pc = "call" /\ ~reachable /\ SameRun /\ (call' # call \/ pc' # pc)) =>
          /\ lastRet' = Err(ServiceUnavailable)
          /\ inflight' = {} /\ pc' = "backoff" /\ call' = call
          /\ store' = store ]_vars

C9_Witness ==
    /\ pc = "backoff" /\ step = 8 /\ call = 3 /\ ~reachable
    /\ lastRet = Err(ServiceUnavailable)
    /\ store[args] = 1 /\ store["oxide-service-pool"] = 1 /\ store["default"] = 0

Accepted == pc = "exited" /\ ~Logged(NobodyWaiting)

\* C10: once the run's send has been accepted, the cell holds the terminal
\* value of the run; a handle that was waiting is woken, every read from then
\* on returns that value, and no two handles have read different terminal values.
C10_ReadersAgree ==
    /\ [](Accepted =>
            /\ status = (IF result.ok THEN Done ELSE Failed(result.message))
            /\ \A r \in Readers : rstate[r] = "waiting" => ENABLED ReaderChanged(r))
    /\ [](\A r \in Readers : Terminal(obs[r]) => obs[r] = status)
    /\ [][ (Accepted /\ SameRun) =>
             \A r \in Readers : obs'[r] # obs[r] => obs'[r] \in {status, Unread} ]_vars

C10_Witness ==
    /\ Accepted /\ status.tag = "Failed"
    /\ rstate[1] = "held" /\ seen[1] = 1 /\ obs[1] = status
    /\ rstate[2] = "held" /\ seen[2] = 0 /\ obs[2] = status

\* C11: populate_start can return whenever it is called, whether or not the
\* database is reachable; when it returns, the caller holds the handle, the
\* cell is NotDone, no populator has been invoked or has returned, and no
\* datastore call has been made.
C11_StartReturnsAtOnce ==
    /\ []((pc = "idle" /\ tpc = "off") => ENABLED PopulateStart)
    /\ [][ (pc = "idle" /\ pc' # "idle") =>
             /\ pc' = "loop" /\ step' = 1
             /\ status' = NotDone /\ version' = 0
             /\ rstate'[1] = "held"
             /\ inflight' = {} /\ okSteps' = <<>> /\ lastRet' = NoReturn
             /\ result' = NoResult
             /\ store' = store /\ reachable' = reachable ]_vars

C11_Witness ==
    /\ pc = "loop" /\ step = 1 /\ ~reachable /\ store = EmptyStore
    /\ lastRet = NoReturn /\ inflight = {} /\ okSteps = <<>>
    /\ rstate[1] = "held" /\ obs[1] = NotDone

\* Exactly one copy of every baseline row, the rack of `a` included.
BaselineOnce(a) == \A r \in Rows : store[r] = (IF r \in RackIds \ {a} THEN 0 ELSE 1)

\* C12: two replicas run populate() with the same args on the same database,
\* their datastore calls interleaved in every way: neither run ever fails,
\* no row is ever there twice, a run that is Done leaves exactly one copy of
\* each baseline row, and once the database stays reachable both become Done.
C12_ReplicasBothDone ==
    /\ [](/\ NoDuplicates
          /\ status.tag # "Failed" /\ peer.status.tag # "Failed"
          /\ result \in {NoResult, RunOk} /\ peer.result \in {NoResult, RunOk})
    /\ []((status = Done \/ peer.status = Done) => BaselineOnce(args))
    /\ (<>[]reachable) =>
          []((Started /\ peer.pc # "idle") => <>(status = Done /\ peer.status = Done))

C12_Witness ==
    /\ pc = "call" /\ step = 8 /\ call = 3
    /\ peer.pc = "call" /\ peer.step = 8 /\ peer.call = 2
    /\ store[args] = 1 /\ store["oxide-service-pool"] = 1 /\ store["default"] = 0
    /\ reachable

\* C13: every run starts at the first populator with nothing carried over;
\* on what any number of earlier runs left in the database, complete or
\* abandoned at any point (between two datastore calls of a populator
\* included), no run fails or duplicates a row, and once the database stays
\* reachable and the process stays up, the run becomes Done.
C13_FreshRunOnLeftovers ==
    /\ [][ (pc = "idle" /\ pc' # "idle") =>
             pc' = "loop" /\ step' = 1 /\ okSteps' = <<>> /\ lastRet' = NoReturn ]_vars
    /\ [](/\ NoDuplicates
          /\ status.tag # "Failed"
          /\ result \in {NoResult, RunOk}
          /\ ~Permanent(lastRet))
    /\ [](status = Done => BaselineOnce(args) /\ okSteps = Prefix(NumPopulators))
    /\ (<>[]reachable /\ <>[][~ProcessRestart]_vars) => <>[](status = Done)

C13_Witness ==
    /\ pc = "call" /\ step = 8 /\ call = 2 /\ nwarn = 0 /\ lastRet = Ok
    /\ okSteps = Prefix(7) /\ reachable
    /\ store[args] = 1 /\ store["oxide-service-pool"] = 1 /\ store["default"] = 0

\* C14: if the database is never reachable, so that every attempt returns
\* ServiceUnavailable, the run never completes: the cell stays NotDone,
\* populate() never returns, the run stays at the first populator, and
\* every backoff is followed by another attempt, and that by another backoff.
C14_DownForeverNeverCompletes ==
    ([]~reachable) =>
        /\ [](Started => /\ status = NotDone
                          /\ result = NoResult
                          /\ pc \in {"loop", "call", "backoff"}
                          /\ step = 1 /\ okSteps = <<>>
                          /\ store = EmptyStore)
        /\ [](\A r \in Readers : obs[r] \in {Unread, NotDone})
        /\ (Started ~> (pc = "call"))
        /\ ((pc = "call") ~> (pc = "backoff" /\ lastRet = Err(ServiceUnavailable)))
        /\ ((pc = "backoff") ~> (pc = "call"))
        /\ (Started ~> (nwarn = MaxWarn))

C14_Witness ==
    /\ pc = "backoff" /\ step = 1 /\ nwarn = MaxWarn /\ ~reachable
    /\ lastRet = Err(ServiceUnavailable) /\ store = EmptyStore
    /\ status = NotDone /\ rstate[1] = "waiting" /\ obs[1] = NotDone

NobodyWaitingCount == Cardinality({i \in 1..Len(errlog) : errlog[i] = NobodyWaiting})

\* C15: when the task sends while every receiver handle has been dropped,
\* the send is refused and the task only logs it and ends: the cell keeps
\* NotDone, the terminal value is lost, the event is logged once, and the
\* task has no further step (no second send).
C15_SendWithoutReaders ==
    /\ [][ (pc = "send" /\ pc' # "send" /\ SameRun /\ \A r \in Readers : ~Alive(r)) =>
             /\ pc' = "exited"
             /\ status = NotDone /\ status' = NotDone /\ version' = version
             /\ errlog' = Append(errlog, NobodyWaiting)
             /\ result' = result /\ store' = store ]_vars
    /\ []((pc = "exited" /\ Logged(NobodyWaiting)) =>
             /\ status = NotDone /\ version = 0
             /\ NobodyWaitingCount = 1
             /\ \A r \in Readers : ~Alive(r)
             /\ ~ENABLED TaskStep)
    /\ []((pc = "exited" /\ ~Logged(NobodyWaiting)) => Terminal(status))

C15_Witness ==
    /\ pc = "exited" /\ result = RunOk /\ okSteps = Prefix(NumPopulators)
    /\ status = NotDone /\ version = 0
    /\ errlog = <<NobodyWaiting>>
    /\ rstate[1] = "dropped" /\ rstate[2] = "dropped"

Running == pc \in {"loop", "call", "backoff", "send"}

\* C16: nothing a holder of the handle does (clone, read, wait, drop, the
\* drop of the last handle included) changes the task, the cell or the
\* database; a task that has not exited always has its next step, whatever
\* the handles are; and the task leaves the loop only after every populator
\* returned Ok or one returned a permanent error.
C16_ReadersCannotCancel ==
    /\ [][ (rdrVars' # rdrVars /\ SameRun) =>
             (taskVars' = taskVars /\ chanVars' = chanVars /\ envVars' = envVars) ]_vars
    /\ [](Running => ENABLED TaskStep)
    /\ [](pc \in {"send", "exited"} =>
             \/ okSteps = Prefix(NumPopulators) /\ result = RunOk
             \/ Permanent(lastRet) /\ result = RunErr(lastRet.err))

C16_Witness ==
    /\ pc = "call" /\ step = 8 /\ call = 3 /\ okSteps = Prefix(7)
    /\ status = NotDone
    /\ rstate[1] = "dropped" /\ rstate[2] = "dropped"

\* C17: on a database populated by a complete run over an older registry (a
\* prefix of ALL_POPULATORS), the run over the full registry never fails,
\* keeps every row that was there, writes only through its populators, and
\* once the database stays reachable becomes Done; at Done the rows of the
\* populators the older registry did not have are there, once each.
C17_UpgradeAddsNewRows ==
    /\ [](/\ NoDuplicates
          /\ status.tag # "Failed" /\ result \in {NoResult, RunOk}
          /\ \A r \in Rows : store[r] >= AfterRun(prior, args)[r])
    /\ [](status = Done =>
            /\ okSteps = Prefix(NumPopulators)
            /\ store = AfterRun(NumPopulators, args)
            /\ BaselineOnce(args))
    /\ [][store' # store => (pc = "call" /\ inflight = {step})]_vars
    /\ (<>[]reachable) => [](Started => <>(status = Done))

C17_Witness ==
    /\ prior = 6 /\ status = Done /\ pc = "exited"
    /\ AfterRun(prior, args)["fleet_collection"] = 0 /\ AfterRun(prior, args)[args] = 0
    /\ store["fleet_collection"] = 1 /\ store[args] = 1
    /\ store["oxide-service-pool"] = 1 /\ store["default"] = 1

FleetStep == CHOOSE i \in Steps : ALL_POPULATORS[i] = "PopulateFleet"
FleetFailed == Started /\ step = FleetStep /\ ~lastRet.ok /\ lastRet.err # NoError

\* C19 as claimed: whenever PopulateFleet has returned an error, whichever
\* it is, the run has ended with a failure.
C19_AnyFleetFailureFatal ==
    FleetFailed => (pc \in {"send", "exited"} /\ StatusOf(result).tag = "Failed")

\* C19 as amended: PopulateFleet returns the error of its create call as it
\* is, ObjectAlreadyExists included; any such error but ServiceUnavailable
\* ends the run, which sends Failed with that error; ServiceUnavailable
\* makes the run back off and try PopulateFleet again.
C19_FleetErrorsUnfiltered ==
    /\ [][ (pc = "call" /\ step = FleetStep /\ SameRun /\ inflight' = {}) =>
             /\ lastRet' = DataStoreCall("virtual_provisioning_collection_create",
                                          store, reachable, fault, args).res
             /\ store' = DataStoreCall("virtual_provisioning_collection_create",
                                        store, reachable, fault, args).store ]_vars
    /\ []((FleetFailed /\ lastRet.err.kind # "ServiceUnavailable") =>
             /\ pc \in {"send", "exited"}
             /\ StatusOf(result) = Failed(to_string(lastRet.err))
             /\ okSteps = Prefix(FleetStep - 1)
             /\ pc = "exited" => (status = StatusOf(result) \/ Logged(NobodyWaiting)))
    /\ []((FleetFailed /\ lastRet.err.kind = "ServiceUnavailable") =>
             /\ pc \in {"backoff", "loop", "call"}
             /\ status = NotDone /\ result = NoResult)

C19_Witness ==
    /\ pc = "exited" /\ step = FleetStep /\ okSteps = Prefix(6)
    /\ lastRet = Err(ObjectAlreadyExists("unexpected conflict"))
    /\ status = Failed(<<"already exists: ", "unexpected conflict">>)
    /\ store["fleet_collection"] = 0

RackStep == CHOOSE i \in Steps : ALL_POPULATORS[i] = "PopulateRack"
RackCalls == <<"rack_insert", "ip_pool_create_service", "ip_pool_create_default">>
RackCall(c) == DataStoreCall(RackCalls[c], store, reachable, fault, args)
PoolCall(c) == c \in {2, 3}
Tolerated(c, res) == res.ok \/ (PoolCall(c) /\ res.err.kind = "ObjectAlreadyExists")

\* C20: every attempt of PopulateRack starts at rack_insert and goes on to
\* the service pool and then the default pool; a call that succeeds, or a
\* pool creation that answers ObjectAlreadyExists, takes the attempt to the
\* next call, or after the third to the return of Ok; any other answer is
\* what the attempt returns, and no further call of the attempt is made.
C20_RackStepOrderAndFilter ==
    /\ [][ (pc = "loop" /\ pc' = "call") => call' = 1 ]_vars
    /\ []((pc = "call" /\ step = RackStep) => call \in 1..Len(RackCalls))
    /\ [][ (pc = "call" /\ step = RackStep /\ SameRun /\ (call' # call \/ pc' # pc)) =>
             /\ store' = RackCall(call).store
             /\ (Tolerated(call, RackCall(call).res) /\ call < 3) =>
                    (pc' = "call" /\ call' = call + 1 /\ inflight' = {RackStep}
                     /\ lastRet' = lastRet)
             /\ (Tolerated(call, RackCall(call).res) /\ call = 3) =>
                    (inflight' = {} /\ lastRet' = Ok /\ pc' = "send" /\ result' = RunOk)
             /\ ~Tolerated(call, RackCall(call).res) =>
                    (inflight' = {} /\ lastRet' = RackCall(call).res
                     /\ call' = call /\ pc' \in {"backoff", "send"}
                     /\ store' = store) ]_vars

C20_Witness ==
    /\ pc = "exited" /\ status = Done /\ okSteps = Prefix(NumPopulators)
    /\ fault = [call |-> "ip_pool_create_service", err |-> ObjectAlreadyExists("unexpected conflict")]
    /\ store[args] = 1 /\ store["oxide-service-pool"] = 0 /\ store["default"] = 1

\* The baseline rows in the order the claim gives: users, roles, role
\* assignments, silo, silo users, silo-user role assignments, fleet record,
\* rack and pools.
OwnedRows(a) ==
    << {"builtin_users"}, {"builtin_roles"}, {"builtin_role_asgns"},
       {"builtin_silos"}, {"silo_users"}, {"silo_user_role_asgns"},
       {"fleet_collection"}, {a, "oxide-service-pool", "default"} >>

\* C21: while populator k is invoked (pending, in flight or backing off),
\* the rows of the 1st..(k-1)th entries of that order are in the database;
\* no step removes a row.
C21_EarlierDataPresent ==
    /\ [](pc \in {"loop", "call", "backoff"} =>
            \A j \in 1..(step - 1) : \A r \in OwnedRows(args)[j] : store[r] >= 1)
    /\ [][\A r \in Rows : store'[r] >= store[r]]_vars

C21_Witness ==
    /\ pc = "call" /\ step = 8 /\ call = 1 /\ inflight = {8}
    /\ \A j \in 1..7 : \A r \in OwnedRows(args)[j] : store[r] = 1
    /\ store[args] = 0 /\ store["oxide-service-pool"] = 0 /\ store["default"] = 0

\* PopulateRack has returned ServiceUnavailable from a pool creation, after
\* its rack insert succeeded.
RackHalfDone ==
    /\ step = RackStep /\ Transient(lastRet) /\ call \in {2, 3}
    /\ pc = "backoff" /\ store[args] = 1

\* C22: when PopulateRack returned ServiceUnavailable from a pool creation,
\* the run backs off with status NotDone and the next attempt starts at
\* rack_insert; rack_insert on the rack that is already there succeeds and
\* changes nothing, the attempt goes on to the pools, the run never fails,
\* and once the database stays reachable it ends with Ok and sends Done.
C22_RackRetryFromFirstCall ==
    /\ [](RackHalfDone => status = NotDone /\ result = NoResult /\ okSteps = Prefix(RackStep - 1))
    /\ [][ (step = RackStep /\ pc = "loop" /\ pc' = "call") =>
             (call' = 1 /\ inflight' = {RackStep} /\ store' = store) ]_vars
    /\ [][ (step = RackStep /\ pc = "call" /\ call = 1 /\ store[args] = 1
             /\ reachable /\ (call' # call \/ pc' # pc)) =>
             (pc' = "call" /\ call' = 2 /\ store' = store) ]_vars
    /\ [](status.tag # "Failed" /\ result \in {NoResult, RunOk} /\ NoDuplicates)
    /\ (<>[]reachable) =>
          (RackHalfDone ~> (/\ pc = "exited" /\ result = RunOk
                            /\ okSteps = Prefix(NumPopulators)
                            /\ BaselineOnce(args)
                            /\ status = Done \/ Logged(NobodyWaiting)))

C22_Witness ==
    /\ pc = "call" /\ step = 8 /\ call = 1 /\ reachable
    /\ lastRet = Err(ServiceUnavailable) /\ okSteps = Prefix(7)
    /\ store[args] = 1 /\ store["oxide-service-pool"] = 1 /\ store["default"] = 0
    /\ status = NotDone

GaveUpCount ==
    Cardinality({i \in 1..Len(errlog) : errlog[i].event = "gave up trying to populate built-in"})

Returns == pc = "call" /\ inflight' = {}

\* C23: a populator's return of ServiceUnavailable adds one warn! event and
\* nothing else does, and it is added before the populator is invoked again;
\* a return of a permanent error adds one error! event that names the
\* populator and the error, while the status is still NotDone, and nothing
\* else adds one; a return of Ok adds no event.  So a run has one such
\* error! event exactly when it has given up, and none when all returned Ok.
C23_LogEvents ==
    /\ [][ SameRun =>
             /\ (Returns /\ Transient(lastRet')) =>
                    /\ nwarn' = (IF nwarn < MaxWarn THEN nwarn + 1 ELSE nwarn)
                    /\ errlog' = errlog /\ pc' = "backoff"
             /\ (Returns /\ Permanent(lastRet')) =>
                    /\ errlog' = Append(errlog, GaveUp(ALL_POPULATORS[step], lastRet'.err))
                    /\ nwarn' = nwarn /\ pc' = "send"
                    /\ status = NotDone /\ status' = NotDone
             /\ (Returns /\ lastRet'.ok) => (errlog' = errlog /\ nwarn' = nwarn)
             /\ ~Returns =>
                    /\ nwarn' = nwarn
                    /\ errlog' = errlog \/ (pc = "send" /\ errlog' = Append(errlog, NobodyWaiting)) ]_vars
    /\ [](pc = "backoff" => nwarn >= 1)
    /\ [](Started => GaveUpCount = (IF Permanent(lastRet) THEN 1 ELSE 0))
    /\ [](status.tag = "Failed" =>
            (GaveUpCount = 1 /\ errlog[1] = GaveUp(ALL_POPULATORS[step], lastRet.err)))
    /\ []((Started /\ ~Transient(lastRet) /\ ~Permanent(lastRet) /\ nwarn = 0) =>
            (GaveUpCount = 0 /\ \A i \in 1..Len(errlog) : errlog[i] = NobodyWaiting))

C23_Witness ==
    /\ pc = "exited" /\ step = 3 /\ nwarn = 2
    /\ errlog = <<GaveUp("PopulateBuiltinRoleAssignments", InternalError("unexpected database error"))>>
    /\ status = Failed(<<"Internal Error: ", "unexpected database error">>)

RssAccepted == {"Ok", "AlreadyInitialized"}
ServerStarted == sled.server \in {"running", "finished_ok", "finished_err"}

\* C24: do_run calls start_rack_initialize at most once, only if it found
\* config-rss.toml and only on the bootstrap server it has started; after
\* Ok or AlreadyInitialized it goes on to wait_for_finish with the server
\* kept; after any other error it returns Failure with that error, the
\* server is dropped unless it had finished, and main exits with a failure;
\* without the file it goes to wait_for_finish with no request.
C24_RackInitAtStart ==
    /\ [](sled.requests > 0 =>
            (sled.requests = 1 /\ sled.rss_file /\ sled.rss_config = "Some"
             /\ sled.server # "none" /\ sled.rss_result # "none"))
    /\ [][ sled'.requests # sled.requests =>
             (sled.pc = "rack_init" /\ sled.rss_file /\ ServerStarted) ]_vars
    /\ [][ (sled.pc = "rack_init" /\ sled'.pc # "rack_init") =>
             /\ (sled'.requests = sled.requests) <=> ~sled.rss_file
             /\ (sled'.requests = sled.requests \/ sled'.rss_result \in RssAccepted) =>
                    (sled'.pc = "wait" /\ sled'.ret = NoCmdResult /\ sled'.server = sled.server)
             /\ (sled'.requests # sled.requests /\ sled'.rss_result \notin RssAccepted) =>
                    (sled'.pc = "returned" /\ sled'.ret = CmdFailure(sled'.rss_result)
                     /\ sled'.server # "running") ]_vars
    /\ [](sled.pc = "wait" => (sled.rss_result \in RssAccepted \cup {"none"} /\ ServerStarted))
    /\ [](sled.rss_result \notin RssAccepted \cup {"none"} =>
            /\ sled.pc \in {"returned", "exited"} /\ ~sled.ret.ok
            /\ sled.server # "running"
            /\ sled.pc = "exited" => sled.exit = "failure")

C24_Witness ==
    /\ sled.pc = "wait" /\ sled.rss_file /\ sled.requests = 1
    /\ sled.rss_result = "AlreadyInitialized" /\ sled.server = "running"

====
